---- MODULE Spec2Model ----
(***************************************************************************)
(* Model of law.py: the download-completion poller                         *)
(* (wait_for_download_complete), the narrative generator's pre/post         *)
(* processing (generate_blog_post_with_gemini) and the post writer with its *)
(* title/slug normaliser (save_markdown_post).                              *)
(*                                                                          *)
(* Text is a sequence of one-character strings.  The token "F" stands for   *)
(* a code fence (three backticks) and "M" for the language tag "markdown".  *)
(***************************************************************************)
EXTENDS Integers, Sequences, FiniteSets, TLC

VARIABLES
    \* ---- download directory (environment of the poller) ----
    size,            \* size[n]: byte size of n.pdf, or Absent
    mtime,           \* mtime[n]: modification stamp of n.pdf
    marker,          \* TRUE iff some *.crdownload file exists
    \* ---- wait_for_download_complete ----
    pc,              \* position of the poller
    timeout,         \* the timeout argument
    now,             \* time.time() - start_time, in seconds
    pdf_files,       \* result of the *.pdf glob
    latest_file,     \* max(pdf_files, key=getmtime)
    current_size,    \* first size read
    final_size,      \* second size read
    outcome,         \* how the call ended
    downloaded_pdf_path,
    \* ---- observations about the poller's run ----
    iterations,      \* loop iterations entered
    iter_sleeps,     \* time.sleep(1) calls in the current iteration
    t_read1,         \* clock at the first size read of the iteration
    marker_always,   \* every *.crdownload glob so far was non-empty
    dir_changed,     \* the directory was modified since the call started
    vanish_seen,     \* the candidate was found missing in this iteration
    nonzero_seen,    \* the files that had a non-zero size at some time
    \* ---- generate_blog_post_with_gemini ----
    gen_pc,          \* "idle" | "called" | "returned" | "raised"
    api_key,         \* TRUE iff a credential is supplied
    pdf_text,        \* [len |-> number of characters, blank |-> only whitespace]
    pdf_text_input,  \* length of the truncated copy computed at lines 168-172
    submitted,       \* the prompt handed to model.generate_content, or NoFile
    configure_calls, \* genai.configure invocations
    generate_calls,  \* model.generate_content invocations
    response,        \* response.text as received, or NoFile
    gen_error,       \* the exception raised by the generator
    \* ---- save_markdown_post ----
    save_pc,         \* "idle" | "called" | "returned" | "raised"
    markdown_content,\* the argument
    post_title,
    slug,
    written,         \* content of the file written, or NoFile
    save_calls,      \* save_markdown_post invocations
    utc_hour,        \* hour of the day, UTC, when the post is written
    posts_dir,       \* TRUE iff the content directory exists
    posts,           \* the files of the content directory: path |-> content
    filepath,        \* the path save_markdown_post returned, or NoPath
    \* ---- the main block ----
    main_pc,         \* position of the orchestrator
    driver,          \* TRUE iff setup_driver returned a browser session
    click_calls,     \* clicks on the download link
    poll_calls,      \* wait_for_download_complete invocations
    extract_calls,   \* extract_text_from_pdf invocations
    quit_calls,      \* driver.quit invocations
    downloaded_pdf_file, \* the path the poller returned, or NoFile
    artifact,        \* "none" | "present" | "absent": the downloaded file
    pdf_content,     \* the extracted text, or NoText
    new_post_filepath,
    error_reported,  \* the handler of lines 303-304 ran
    reported,        \* the path printed on the ::set-output line, or NoPath
    exit_status      \* the status the process ended with, or NoFile

poll_vars == <<size, mtime, marker, pc, timeout, now, pdf_files, latest_file,
               current_size, final_size, outcome, downloaded_pdf_path,
               iterations, iter_sleeps, t_read1, marker_always, dir_changed,
               vanish_seen, nonzero_seen>>
gen_vars  == <<gen_pc, api_key, pdf_text, pdf_text_input, submitted,
               configure_calls, generate_calls, response, gen_error>>
save_vars == <<save_pc, markdown_content, post_title, slug, written,
               save_calls, utc_hour, posts_dir, posts, filepath>>
main_vars == <<main_pc, driver, click_calls, poll_calls, extract_calls,
               quit_calls, downloaded_pdf_file, artifact, pdf_content,
               new_post_filepath, error_reported, reported, exit_status>>
vars      == <<poll_vars, gen_vars, save_vars, main_vars>>

----------------------------------------------------------------------------
\* Bounds of the model
MaxTimeout == 2      \* timeouts 0..MaxTimeout seconds
MaxSize    == 1      \* file sizes 0..MaxSize bytes
MaxSleep   == 2      \* time.sleep(1) lasts 1..MaxSleep seconds
MaxMtime   == 1      \* modification stamps 0..MaxMtime
MaxLen     == 4      \* article bodies of at most MaxLen characters
MaxRespLen == 4      \* service responses of at most MaxRespLen tokens
MaxExcess  == 2      \* source texts up to max_input_length + MaxExcess

Names  == {"p1", "p2"}          \* the *.pdf files that may exist
Absent == -1
NoFile == "none"

----------------------------------------------------------------------------
\* Text: Python string operations on sequences of characters

Letters    == {"a", "A", "U", "n", "t", "i", "l", "e", "d", "R", "p", "o", "r", "u", "M"}
Whitespace == {" ", "\n"}
\* the characters article bodies are drawn from
NormChars  == {"a", "A", "#", " ", "\n", "-", "!"}
\* the tokens service responses are drawn from
GenChars   == {"F", "M", "a", " ", "\n"}

Strs(S, n) == UNION {[1..k -> S] : k \in 0..n}

RECURSIVE LStripSet(_, _)
\* str.lstrip(chars)
LStripSet(s, cs) ==
    IF s = <<>> \/ Head(s) \notin cs THEN s ELSE LStripSet(Tail(s), cs)

RECURSIVE RStripSet(_, _)
\* str.rstrip(chars)
RStripSet(s, cs) ==
    IF s = <<>> \/ s[Len(s)] \notin cs THEN s
    ELSE RStripSet(SubSeq(s, 1, Len(s) - 1), cs)

\* str.strip(chars)
StripSet(s, cs) == RStripSet(LStripSet(s, cs), cs)

\* str.strip()
Strip(s) == StripSet(s, Whitespace)

RECURSIVE FirstLine(_)
\* s.split('\n', 1)[0]
FirstLine(s) ==
    IF s = <<>> \/ Head(s) = "\n" THEN <<>> ELSE <<Head(s)>> \o FirstLine(Tail(s))

\* str.lower() on one character
LowerChar(c) ==
    CASE c = "A" -> "a"
      [] c = "U" -> "u"
      [] c = "R" -> "r"
      [] OTHER   -> c

\* str.lower()
Lower(s) == [i \in 1..Len(s) |-> LowerChar(s[i])]

\* \w of the regular expressions
IsWord(c) == c \in Letters

\* the characters [^\w\s\-] does not match
IsAllowed(c) == IsWord(c) \/ c \in Whitespace \/ c = "-"

\* re.sub(r'[^\w\s\-]+', '', s)
RemoveDisallowed(s) == SelectSeq(s, IsAllowed)

RECURSIVE SpacesToHyphen(_)
\* re.sub(r'\s+', '-', s)
SpacesToHyphen(s) ==
    IF s = <<>> THEN <<>>
    ELSE IF Head(s) \in Whitespace
         THEN <<"-">> \o SpacesToHyphen(LStripSet(Tail(s), Whitespace))
         ELSE <<Head(s)>> \o SpacesToHyphen(Tail(s))

RECURSIVE CollapseHyphens(_)
\* re.sub(r'--+', '-', s)
CollapseHyphens(s) ==
    IF s = <<>> THEN <<>>
    ELSE IF Head(s) = "-"
         THEN <<"-">> \o CollapseHyphens(LStripSet(Tail(s), {"-"}))
         ELSE <<Head(s)>> \o CollapseHyphens(Tail(s))

UntitledReport ==
    <<"U", "n", "t", "i", "t", "l", "e", "d", " ", "R", "e", "p", "o", "r", "t">>
ReportSlug == <<"r", "e", "p", "o", "r", "t">>

\* the title taken with only the '#' characters stripped from the left
ExtractTitle_Mut(title_line) ==
    IF title_line # <<>> /\ Head(title_line) = "#"
    THEN Strip(LStripSet(title_line, {"#"}))
    ELSE UntitledReport

\* line 207: title_line.lstrip('# ').strip() if title_line.startswith('#')
\*           else "Untitled Report"
ExtractTitle(title_line) ==
    IF title_line # <<>> /\ Head(title_line) = "#"
    THEN Strip(LStripSet(title_line, {"#", " "}))
    ELSE UntitledReport

\* the slug without the collapsing of hyphen runs (line 213 left out)
Slugify_NoCollapse(title) ==
    LET s1 == RemoveDisallowed(Lower(title))
        s2 == StripSet(SpacesToHyphen(s1), {"-"})
    IN  IF s2 = <<>> THEN ReportSlug ELSE s2

\* the slug with the disallowed characters removed last
Slugify_Mut(title) ==
    LET s1 == SpacesToHyphen(Lower(title))
        s2 == CollapseHyphens(StripSet(s1, {"-"}))
        s3 == RemoveDisallowed(s2)
    IN  IF s3 = <<>> THEN ReportSlug ELSE s3

\* lines 211-214
Slugify(title) ==
    LET s1 == RemoveDisallowed(Lower(title))
        s2 == StripSet(SpacesToHyphen(s1), {"-"})
        s3 == CollapseHyphens(s2)
    IN  IF s3 = <<>> THEN ReportSlug ELSE s3

\* line 181: re.sub(r'^```markdown\s*', '', blog_post, flags=re.IGNORECASE)
StripLeadingFence(s) ==
    IF Len(s) >= 2 /\ s[1] = "F" /\ s[2] = "M"
    THEN LStripSet(SubSeq(s, 3, Len(s)), Whitespace)
    ELSE s

\* line 182: re.sub(r'\s*```$', '', blog_post); $ matches at the end of the
\* string and just before a newline that ends the string
StripTrailingFence(s) ==
    IF Len(s) >= 1 /\ s[Len(s)] = "F"
    THEN RStripSet(SubSeq(s, 1, Len(s) - 1), Whitespace)
    ELSE IF Len(s) >= 2 /\ s[Len(s)] = "\n" /\ s[Len(s) - 1] = "F"
         THEN RStripSet(SubSeq(s, 1, Len(s) - 2), Whitespace) \o <<"\n">>
         ELSE s

\* lines 181-183
PostProcess(text) == Strip(StripTrailingFence(StripLeadingFence(text)))

max_input_length == 10000

\* lines 168-172: the length of pdf_text_input
Truncate(n) == IF n > max_input_length THEN max_input_length ELSE n

\* lines 139-165: the f-string embeds pdf_text itself
BuildPrompt(text) == [template |-> "POSST", source_chars |-> text.len]

----------------------------------------------------------------------------
\* generate_blog_post_with_gemini (lines 125-194); on success the orchestrator
\* hands the result to save_markdown_post (lines 293, 298)

\* the credential check left out
CredentialMissing_Mut(key) == FALSE

\* line 127: if not api_key
CredentialMissing(key) == ~key

\* the error text handed on to the writer as if it were the post
GenRaise_Mut(e) ==
    /\ gen_pc' = "raised"
    /\ gen_error' = e
    /\ markdown_content' = <<"a">>
    /\ save_pc' = "called"
    /\ UNCHANGED <<response, post_title, slug, written, save_calls, utc_hour,
                   posts_dir, posts, filepath>>

\* lines 128, 130, 185, 188, 190 and 192-194: every raise of the function
\* reaches the caller, which then skips line 298
GenRaise(e) ==
    /\ gen_pc' = "raised"
    /\ gen_error' = e
    /\ UNCHANGED <<response, save_vars>>

Generate ==
    /\ gen_pc = "called"
    /\ UNCHANGED <<poll_vars, main_vars, api_key, pdf_text>>
    /\ IF CredentialMissing(api_key)
       THEN /\ GenRaise("MissingCredential")
            /\ UNCHANGED <<pdf_text_input, submitted, configure_calls, generate_calls>>
       ELSE IF pdf_text.len = 0 \/ pdf_text.blank
       THEN /\ GenRaise("EmptyInput")
            /\ UNCHANGED <<pdf_text_input, submitted, configure_calls, generate_calls>>
       ELSE /\ configure_calls' = configure_calls + 1
            /\ \/ /\ GenRaise("ServiceError")        \* genai.configure raises
                  /\ UNCHANGED <<pdf_text_input, submitted, generate_calls>>
               \/ /\ pdf_text_input' = Truncate(pdf_text.len)
                  /\ submitted' = BuildPrompt(pdf_text)
                  /\ generate_calls' = generate_calls + 1
                  /\ \/ GenRaise("ServiceError")     \* generate_content raises
                     \/ GenRaise("ContentBlocked")
                     \/ GenRaise("MalformedResponse")
                     \/ \E r \in Strs(GenChars, MaxRespLen) :
                           /\ response' = r
                           /\ gen_pc' = "returned"
                           /\ markdown_content' = PostProcess(r)
                           /\ save_pc' = "called"
                           /\ UNCHANGED <<gen_error, post_title, slug, written,
                                          save_calls, utc_hour, posts_dir,
                                          posts, filepath>>

----------------------------------------------------------------------------
\* save_markdown_post (lines 196-254)

POSTS_DIR == "_articles"

\* the hours of the UTC day the post may be written at: before and after
\* midnight at UTC+9
Hours == {14, 15}

\* the date taken from the UTC clock
KstDate_Mut(hour) == 0

\* lines 218-220: datetime.now(timezone(timedelta(hours=9))) formatted as
\* %Y-%m-%d; dates are counted in days from the UTC date
KstDate(hour) == (hour + 9) \div 24

\* lines 225-226: os.path.join(POSTS_DIR, f"{current_date_str}-{slug}.md")
PostPath(date, sl) == [dir |-> POSTS_DIR, date |-> date, slug |-> sl, ext |-> "md"]

\* line 261: new_post_filepath = None, no path
NoPath == [dir |-> "", date |-> 0, slug |-> <<>>, ext |-> ""]

\* the empty content directory
NoPosts == [f \in {} |-> <<>>]

\* lines 245-247: open(filepath, "w") creates or truncates, then writes
WriteFile(files, path, content) ==
    [f \in DOMAIN files \cup {path} |-> IF f = path THEN content ELSE files[f]]

SaveMarkdownPost ==
    /\ save_pc = "called"
    /\ UNCHANGED <<poll_vars, gen_vars, main_vars, markdown_content, utc_hour>>
    /\ save_calls' = save_calls + 1
    /\ LET cleaned_output == Strip(markdown_content)
           title_line == FirstLine(cleaned_output)
           path == PostPath(KstDate(utc_hour), Slugify(ExtractTitle(title_line)))
       IN  IF cleaned_output = <<>>
           THEN /\ save_pc' = "raised"
                /\ UNCHANGED <<post_title, slug, written, posts_dir, posts, filepath>>
           ELSE /\ post_title' = ExtractTitle(title_line)
                /\ slug' = Slugify(ExtractTitle(title_line))
                /\ posts_dir' = TRUE
                /\ posts' = WriteFile(posts, path, cleaned_output)
                /\ written' = cleaned_output
                /\ filepath' = path
                /\ save_pc' = "returned"

\* lines 211-214 applied to a string, and again to their own result
SlugPass ==
    /\ save_pc \in {"slug0", "slug1"}
    /\ UNCHANGED <<poll_vars, gen_vars, main_vars, markdown_content, written,
                   save_calls, utc_hour, posts_dir, posts, filepath>>
    /\ IF save_pc = "slug0"
       THEN /\ slug' = Slugify(post_title)
            /\ save_pc' = "slug1"
            /\ UNCHANGED post_title
       ELSE /\ post_title' = slug
            /\ slug' = Slugify(slug)
            /\ save_pc' = "slug2"

----------------------------------------------------------------------------
\* The main block (lines 257-323)

\* a failed download is tried again from the acquisition
AfterStage_Mut(stage, ok) ==
    IF ~ok THEN (IF stage = "poll" THEN "acquire" ELSE "except")
    ELSE CASE stage = "acquire" -> "poll"
           [] stage = "poll"    -> "extract"
           [] stage = "extract" -> "generate"
           [] OTHER             -> "finally"

\* lines 263-307: the statements of the try block run in order; an exception
\* of any of them leaves the block for the handler of line 303
AfterStage(stage, ok) ==
    IF ~ok THEN "except"
    ELSE CASE stage = "acquire" -> "poll"
           [] stage = "poll"    -> "extract"
           [] stage = "extract" -> "generate"
           [] OTHER             -> "finally"

\* line 292: if pdf_content
TextTruthy(text) == text.len > 0

\* the session closed at the end of the try block instead of in finally
QuitNeeded_Mut(d, failed) == d /\ ~failed

\* line 309: if driver
QuitNeeded(d, failed) == d

\* pdf_content before line 290 has assigned it
NoText == [len |-> Absent, blank |-> TRUE]

\* the ways wait_for_download_complete ends (SpecPoll)
PollOutcomes == {"returned", "TimeoutException", "FileNotFoundError"}

\* the texts extract_text_from_pdf may return: empty, blank, short, too long
MainTexts ==
    {[len |-> 0, blank |-> TRUE], [len |-> 1, blank |-> TRUE],
     [len |-> 1, blank |-> FALSE], [len |-> max_input_length + 1, blank |-> FALSE]}

\* lines 264-287: create the session, load the page, find and click the link
MainAcquire ==
    /\ main_pc = "acquire"
    /\ \/ /\ main_pc' = AfterStage("acquire", FALSE)   \* setup_driver raises
          /\ UNCHANGED <<driver, click_calls>>
       \/ /\ driver' = TRUE                            \* page or link missing
          /\ main_pc' = AfterStage("acquire", FALSE)
          /\ UNCHANGED click_calls
       \/ /\ driver' = TRUE
          /\ click_calls' = click_calls + 1
          /\ main_pc' = AfterStage("acquire", TRUE)
    /\ UNCHANGED <<poll_vars, gen_vars, save_vars, poll_calls, extract_calls,
                   quit_calls, downloaded_pdf_file, artifact, pdf_content,
                   new_post_filepath, error_reported, reported, exit_status>>

\* line 289: the call of wait_for_download_complete and its outcome
MainPoll ==
    /\ main_pc = "poll"
    /\ poll_calls' = poll_calls + 1
    /\ \E o \in PollOutcomes :
          IF o = "returned"
          THEN /\ \E n \in Names : downloaded_pdf_file' = n
               /\ artifact' = "present"
               /\ main_pc' = AfterStage("poll", TRUE)
          ELSE /\ main_pc' = AfterStage("poll", FALSE)
               /\ UNCHANGED <<downloaded_pdf_file, artifact>>
    /\ UNCHANGED <<poll_vars, gen_vars, save_vars, driver, click_calls,
                   extract_calls, quit_calls, pdf_content, new_post_filepath,
                   error_reported, reported, exit_status>>

\* lines 290-293 and 300-301: extract the text; a non-empty text is handed
\* to the generator, an empty one only logs a message
MainExtract ==
    /\ main_pc = "extract"
    /\ extract_calls' = extract_calls + 1
    /\ \/ /\ main_pc' = AfterStage("extract", FALSE)   \* unreadable document
          /\ UNCHANGED <<artifact, pdf_content, gen_vars>>
       \/ /\ main_pc' = AfterStage("extract", FALSE)   \* the file is gone
          /\ artifact' = "absent"
          /\ UNCHANGED <<pdf_content, gen_vars>>
       \/ \E t \in MainTexts :
             /\ pdf_content' = t
             /\ UNCHANGED artifact
             /\ IF TextTruthy(t)
                THEN /\ main_pc' = AfterStage("extract", TRUE)
                     /\ gen_pc' = "called"
                     /\ pdf_text' = t
                     /\ UNCHANGED <<api_key, pdf_text_input, submitted,
                                    configure_calls, generate_calls, response,
                                    gen_error>>
                ELSE /\ main_pc' = "finally"
                     /\ UNCHANGED gen_vars
    /\ UNCHANGED <<poll_vars, save_vars, driver, click_calls, poll_calls,
                   quit_calls, downloaded_pdf_file, new_post_filepath,
                   error_reported, reported, exit_status>>

\* lines 293 and 298: an exception of the generator or of the writer leaves
\* the try block
MainRaised ==
    /\ main_pc = "generate"
    /\ gen_pc = "raised" \/ save_pc = "raised"
    /\ main_pc' = AfterStage("generate", FALSE)
    /\ UNCHANGED <<poll_vars, gen_vars, save_vars, driver, click_calls,
                   poll_calls, extract_calls, quit_calls, downloaded_pdf_file,
                   artifact, pdf_content, new_post_filepath, error_reported,
                   reported, exit_status>>

\* line 298: new_post_filepath = save_markdown_post(blog_output_markdown)
MainSaved ==
    /\ main_pc = "generate"
    /\ save_pc = "returned"
    /\ new_post_filepath' = filepath
    /\ main_pc' = AfterStage("generate", TRUE)
    /\ UNCHANGED <<poll_vars, gen_vars, save_vars, driver, click_calls,
                   poll_calls, extract_calls, quit_calls, downloaded_pdf_file,
                   artifact, pdf_content, error_reported, reported, exit_status>>

\* lines 303-307: the handler prints the error; sys.exit(1) is commented out
MainExcept ==
    /\ main_pc = "except"
    /\ error_reported' = TRUE
    /\ main_pc' = "finally"
    /\ UNCHANGED <<poll_vars, gen_vars, save_vars, driver, click_calls,
                   poll_calls, extract_calls, quit_calls, downloaded_pdf_file,
                   artifact, pdf_content, new_post_filepath, reported,
                   exit_status>>

\* lines 308-311: driver.quit(); an exception of it leaves the finally block
\* and ends the process with a traceback
MainQuit ==
    /\ main_pc = "finally"
    /\ IF QuitNeeded(driver, error_reported)
       THEN /\ quit_calls' = quit_calls + 1
            /\ \/ /\ main_pc' = "remove"
                  /\ UNCHANGED exit_status
               \/ /\ main_pc' = "exit"                 \* driver.quit raises
                  /\ exit_status' = 1
       ELSE /\ main_pc' = "remove"
            /\ UNCHANGED <<quit_calls, exit_status>>
    /\ UNCHANGED <<poll_vars, gen_vars, save_vars, driver, click_calls,
                   poll_calls, extract_calls, downloaded_pdf_file, artifact,
                   pdf_content, new_post_filepath, error_reported, reported>>

\* lines 313-318: remove the downloaded file if it is still there; a failure
\* of os.remove is printed and ignored
MainRemove ==
    /\ main_pc = "remove"
    /\ IF downloaded_pdf_file # NoFile /\ artifact = "present"
       THEN \/ artifact' = "absent"
            \/ UNCHANGED artifact                      \* os.remove raises
       ELSE UNCHANGED artifact
    /\ main_pc' = "report"
    /\ UNCHANGED <<poll_vars, gen_vars, save_vars, driver, click_calls,
                   poll_calls, extract_calls, quit_calls, downloaded_pdf_file,
                   pdf_content, new_post_filepath, error_reported, reported,
                   exit_status>>

\* lines 322-323: print the ::set-output line; the script ends
MainReport ==
    /\ main_pc = "report"
    /\ reported' = IF new_post_filepath # NoPath THEN new_post_filepath ELSE NoPath
    /\ exit_status' = 0
    /\ main_pc' = "exit"
    /\ UNCHANGED <<poll_vars, gen_vars, save_vars, driver, click_calls,
                   poll_calls, extract_calls, quit_calls, downloaded_pdf_file,
                   artifact, pdf_content, new_post_filepath, error_reported>>

----------------------------------------------------------------------------
\* The download directory changes under the poller: the browser's download
\* process and any other process may create, write, touch or delete files.

EnvWrite(n, s, m) ==
    /\ UNCHANGED <<gen_vars, save_vars, main_vars>>
    /\ pc # "done"
    /\ <<s, m>> # <<size[n], mtime[n]>>
    /\ size' = [size EXCEPT ![n] = s]
    /\ mtime' = [mtime EXCEPT ![n] = m]
    /\ dir_changed' = TRUE
    /\ nonzero_seen' = IF s > 0 THEN nonzero_seen \cup {n} ELSE nonzero_seen
    /\ UNCHANGED <<marker, pc, timeout, now, pdf_files, latest_file,
                   current_size, final_size, outcome, downloaded_pdf_path,
                   iterations, iter_sleeps, t_read1, marker_always, vanish_seen>>

EnvDelete(n) ==
    /\ UNCHANGED <<gen_vars, save_vars, main_vars>>
    /\ pc # "done"
    /\ size[n] # Absent
    /\ size' = [size EXCEPT ![n] = Absent]
    /\ mtime' = [mtime EXCEPT ![n] = 0]
    /\ dir_changed' = TRUE
    /\ UNCHANGED <<nonzero_seen, marker, pc, timeout, now, pdf_files, latest_file,
                   current_size, final_size, outcome, downloaded_pdf_path,
                   iterations, iter_sleeps, t_read1, marker_always, vanish_seen>>

EnvMarker ==
    /\ UNCHANGED <<gen_vars, save_vars, main_vars>>
    /\ pc # "done"
    /\ marker' = ~marker
    /\ dir_changed' = TRUE
    /\ UNCHANGED <<nonzero_seen, size, mtime, pc, timeout, now, pdf_files, latest_file,
                   current_size, final_size, outcome, downloaded_pdf_path,
                   iterations, iter_sleeps, t_read1, marker_always, vanish_seen>>

----------------------------------------------------------------------------
\* wait_for_download_complete

\* the loop test giving up one second early
LoopCond_Mut(elapsed, limit) == elapsed + 1 < limit

\* while time.time() - start_time < timeout
LoopCond(elapsed, limit) == elapsed < limit

\* the marker glob looking for the wrong suffix: it never finds anything
crdownload_files_Mut == FALSE

\* glob.glob(os.path.join(download_dir, "*.crdownload")) is non-empty
crdownload_files == marker

\* glob.glob(os.path.join(download_dir, "*.pdf"))
GlobPdfFiles == {n \in Names : size[n] # Absent}

\* the completion test without the emptiness guard
SizeStable_Mut(cur, fin) == cur = fin

\* if current_size == final_size and current_size > 0
SizeStable(cur, fin) == cur = fin /\ cur > 0

\* the files max(pdf_files, key=os.path.getmtime) may return
Latest(files) == {n \in files : \A o \in files : mtime[o] <= mtime[n]}

\* The locals of one iteration (pdf_files, latest_file, current_size,
\* final_size) are assigned before they are read in every iteration; the
\* model clears them when the iteration ends without a return.
EndIteration ==
    /\ pc' = "loop"
    /\ pdf_files' = {}
    /\ latest_file' = NoFile
    /\ current_size' = 0
    /\ final_size' = 0
    /\ t_read1' = 0

\* time.sleep(1): at least one second passes
Sleep ==
    /\ \E d \in 1..MaxSleep : now' = now + d
    /\ iter_sleeps' = iter_sleeps + 1

\* line 66 and lines 97-100: the loop test, and the exit when it fails
LoopTest ==
    /\ pc = "loop"
    /\ IF LoopCond(now, timeout)
       THEN /\ pc' = "crglob"
            /\ iterations' = iterations + 1
            /\ iter_sleeps' = 0
            /\ vanish_seen' = FALSE
            /\ UNCHANGED outcome
       ELSE /\ pc' = "done"
            /\ outcome' = "TimeoutException"
            /\ UNCHANGED <<iterations, iter_sleeps, vanish_seen>>
    /\ UNCHANGED <<size, mtime, marker, timeout, now, pdf_files, latest_file,
                   current_size, final_size, downloaded_pdf_path, t_read1,
                   marker_always, dir_changed, nonzero_seen>>
    /\ UNCHANGED <<gen_vars, save_vars, main_vars>>

\* lines 67-71: marker present -> sleep and retry
GlobMarker ==
    /\ pc = "crglob"
    /\ marker_always' = (marker_always /\ marker)
    /\ IF crdownload_files
       THEN /\ Sleep
            /\ EndIteration
       ELSE /\ pc' = "pdfglob"
            /\ UNCHANGED <<now, iter_sleeps, pdf_files, latest_file,
                           current_size, final_size, t_read1>>
    /\ UNCHANGED <<size, mtime, marker, timeout, outcome, downloaded_pdf_path,
                   iterations, dir_changed, vanish_seen, nonzero_seen>>
    /\ UNCHANGED <<gen_vars, save_vars, main_vars>>

\* lines 73-74 and 93-95: list the *.pdf files; none -> sleep and retry
GlobPdf ==
    /\ pc = "pdfglob"
    /\ IF GlobPdfFiles # {}
       THEN /\ pc' = "getmtime"
            /\ pdf_files' = GlobPdfFiles
            /\ UNCHANGED <<now, iter_sleeps, latest_file, current_size,
                           final_size, t_read1>>
       ELSE /\ Sleep
            /\ EndIteration
    /\ UNCHANGED <<size, mtime, marker, timeout, outcome, downloaded_pdf_path,
                   iterations, marker_always, dir_changed, vanish_seen,
                   nonzero_seen>>
    /\ UNCHANGED <<gen_vars, save_vars, main_vars>>

\* line 75: max(pdf_files, key=os.path.getmtime) stands outside the try
\* block, so os.path.getmtime of a listed file that has been deleted raises
\* FileNotFoundError out of the function.
GetMtime ==
    /\ pc = "getmtime"
    /\ IF \E n \in pdf_files : size[n] = Absent
       THEN /\ pc' = "done"
            /\ outcome' = "FileNotFoundError"
            /\ vanish_seen' = TRUE
            /\ UNCHANGED latest_file
       ELSE /\ pc' = "getsize1"
            /\ latest_file' \in Latest(pdf_files)
            /\ UNCHANGED <<outcome, vanish_seen>>
    /\ UNCHANGED <<size, mtime, marker, timeout, now, pdf_files,
                   current_size, final_size, downloaded_pdf_path,
                   iterations, iter_sleeps, t_read1, marker_always,
                   dir_changed, nonzero_seen>>
    /\ UNCHANGED <<gen_vars, save_vars, main_vars>>

\* lines 77-79, 87-89: first size read, then the one-second sleep; a missing
\* file is caught, costs one sleep and the loop continues (the generic
\* handler of lines 90-92 does the same).
GetSize1 ==
    /\ pc = "getsize1"
    /\ Sleep
    /\ IF size[latest_file] = Absent
       THEN /\ EndIteration
            /\ vanish_seen' = TRUE
       ELSE /\ pc' = "getsize2"
            /\ current_size' = size[latest_file]
            /\ t_read1' = now
            /\ UNCHANGED <<vanish_seen, pdf_files, latest_file, final_size>>
    /\ UNCHANGED <<size, mtime, marker, timeout, outcome, downloaded_pdf_path,
                   iterations, marker_always, dir_changed, nonzero_seen>>
    /\ UNCHANGED <<gen_vars, save_vars, main_vars>>

\* lines 80-89 and 97-98: second size read, completion test, return
GetSize2 ==
    /\ pc = "getsize2"
    /\ IF size[latest_file] = Absent
       THEN /\ Sleep
            /\ EndIteration
            /\ vanish_seen' = TRUE
            /\ UNCHANGED <<outcome, downloaded_pdf_path>>
       ELSE IF SizeStable(current_size, size[latest_file])
       THEN /\ final_size' = size[latest_file]
            /\ downloaded_pdf_path' = latest_file
            /\ outcome' = "returned"
            /\ pc' = "done"
            /\ UNCHANGED <<now, iter_sleeps, vanish_seen, pdf_files,
                           latest_file, current_size, t_read1>>
       ELSE /\ EndIteration
            /\ UNCHANGED <<now, iter_sleeps, vanish_seen, outcome,
                           downloaded_pdf_path>>
    /\ UNCHANGED <<size, mtime, marker, timeout, iterations, marker_always,
                   dir_changed, nonzero_seen>>
    /\ UNCHANGED <<gen_vars, save_vars, main_vars>>

PollIdle ==
    /\ size = [n \in Names |-> Absent]
    /\ mtime = [n \in Names |-> 0]
    /\ marker = FALSE
    /\ pc = "done"
    /\ timeout = 0
    /\ now = 0
    /\ pdf_files = {}
    /\ latest_file = NoFile
    /\ current_size = 0
    /\ final_size = 0
    /\ outcome = "idle"
    /\ downloaded_pdf_path = NoFile
    /\ iterations = 0
    /\ iter_sleeps = 0
    /\ t_read1 = 0
    /\ marker_always = TRUE
    /\ dir_changed = FALSE
    /\ vanish_seen = FALSE
    /\ nonzero_seen = {}

GenIdle ==
    /\ gen_pc = "idle"
    /\ api_key = FALSE
    /\ pdf_text = [len |-> 0, blank |-> TRUE]
    /\ pdf_text_input = 0
    /\ submitted = NoFile
    /\ configure_calls = 0
    /\ generate_calls = 0
    /\ response = NoFile
    /\ gen_error = NoFile

SaveIdle ==
    /\ save_pc = "idle"
    /\ markdown_content = <<>>
    /\ post_title = <<>>
    /\ slug = <<>>
    /\ written = NoFile
    /\ save_calls = 0
    /\ utc_hour = 14
    /\ posts_dir = FALSE
    /\ posts = NoPosts
    /\ filepath = NoPath

MainIdle ==
    /\ main_pc = "idle"
    /\ driver = FALSE
    /\ click_calls = 0
    /\ poll_calls = 0
    /\ extract_calls = 0
    /\ quit_calls = 0
    /\ downloaded_pdf_file = NoFile
    /\ artifact = "none"
    /\ pdf_content = NoText
    /\ new_post_filepath = NoPath
    /\ error_reported = FALSE
    /\ reported = NoPath
    /\ exit_status = NoFile

\* The call wait_for_download_complete(download_dir, timeout) on any directory
InitPoll ==
    /\ size \in [Names -> {Absent} \cup 0..MaxSize]
    /\ mtime \in [Names -> 0..MaxMtime]
    /\ \A n \in Names : size[n] = Absent => mtime[n] = 0
    /\ marker \in BOOLEAN
    /\ pc = "loop"
    /\ timeout \in 0..MaxTimeout
    /\ now = 0
    /\ pdf_files = {}
    /\ latest_file = NoFile
    /\ current_size = 0
    /\ final_size = 0
    /\ outcome = "running"
    /\ downloaded_pdf_path = NoFile
    /\ iterations = 0
    /\ iter_sleeps = 0
    /\ t_read1 = 0
    /\ marker_always = TRUE
    /\ dir_changed = FALSE
    /\ vanish_seen = FALSE
    /\ nonzero_seen = {n \in Names : size[n] > 0}
    /\ GenIdle
    /\ SaveIdle
    /\ MainIdle

NextPoll ==
    \/ \E n \in Names, s \in 0..MaxSize, m \in 0..MaxMtime : EnvWrite(n, s, m)
    \/ \E n \in Names : EnvDelete(n)
    \/ EnvMarker
    \/ LoopTest
    \/ GlobMarker
    \/ GlobPdf
    \/ GetMtime
    \/ GetSize1
    \/ GetSize2

SpecPoll == InitPoll /\ [][NextPoll]_vars

\* the steps of the function itself
PollerStep == LoopTest \/ GlobMarker \/ GlobPdf \/ GetMtime \/ GetSize1 \/ GetSize2

\* The interpreter keeps executing the function: whatever the other processes
\* do to the directory, the poller's next statement is eventually run.
FairSpecPoll == SpecPoll /\ WF_vars(PollerStep)

\* The call save_markdown_post(markdown_content) on any article body
\* a post left in the content directory by an earlier run
OldPost == <<"a", "\n", "a">>

\* the content directory before the call: missing, empty, or holding a post
\* of an earlier run
InitPosts ==
    \/ posts_dir = FALSE /\ posts = NoPosts
    \/ posts_dir = TRUE /\ posts = NoPosts
    \/ posts_dir = TRUE /\ posts = WriteFile(NoPosts, PostPath(1, <<"a">>), OldPost)

InitNorm ==
    /\ PollIdle
    /\ GenIdle
    /\ MainIdle
    /\ save_pc = "called"
    /\ markdown_content \in Strs(NormChars, MaxLen)
    /\ post_title = <<>>
    /\ slug = <<>>
    /\ written = NoFile
    /\ save_calls = 0
    /\ utc_hour \in Hours
    /\ InitPosts
    /\ filepath = NoPath

NextNorm == SaveMarkdownPost

SpecNorm == InitNorm /\ [][NextNorm]_vars

\* Slug generation on any string
\* the characters titles are drawn from: "/" is the path separator
SlugChars == NormChars \cup {"/"}

InitSlug ==
    /\ PollIdle
    /\ GenIdle
    /\ MainIdle
    /\ save_pc = "slug0"
    /\ markdown_content = <<>>
    /\ post_title \in Strs(SlugChars, MaxLen)
    /\ slug = <<>>
    /\ written = NoFile
    /\ save_calls = 0
    /\ utc_hour = 14
    /\ posts_dir = FALSE
    /\ posts = NoPosts
    /\ filepath = NoPath

NextSlug == SlugPass

SpecSlug == InitSlug /\ [][NextSlug]_vars

PdfLens == {1, max_input_length - 1} \cup max_input_length..(max_input_length + MaxExcess)

\* The call generate_blog_post_with_gemini(api_key, pdf_text), followed on
\* success by save_markdown_post
InitGen ==
    /\ PollIdle
    /\ SaveIdle
    /\ MainIdle
    /\ gen_pc = "called"
    /\ api_key \in BOOLEAN
    /\ pdf_text \in {[len |-> 0, blank |-> TRUE]}
                    \cup [len : PdfLens, blank : BOOLEAN]
    /\ pdf_text_input = 0
    /\ submitted = NoFile
    /\ configure_calls = 0
    /\ generate_calls = 0
    /\ response = NoFile
    /\ gen_error = NoFile

NextGen == Generate \/ SaveMarkdownPost

SpecGen == InitGen /\ [][NextGen]_vars

\* One run of the script: the credential comes from the environment, the
\* content directory is as the repository holds it
InitMain ==
    /\ PollIdle
    /\ gen_pc = "idle"
    /\ api_key \in BOOLEAN
    /\ pdf_text = [len |-> 0, blank |-> TRUE]
    /\ pdf_text_input = 0
    /\ submitted = NoFile
    /\ configure_calls = 0
    /\ generate_calls = 0
    /\ response = NoFile
    /\ gen_error = NoFile
    /\ save_pc = "idle"
    /\ markdown_content = <<>>
    /\ post_title = <<>>
    /\ slug = <<>>
    /\ written = NoFile
    /\ save_calls = 0
    /\ utc_hour = 14
    /\ InitPosts
    /\ filepath = NoPath
    /\ main_pc = "acquire"
    /\ driver = FALSE
    /\ click_calls = 0
    /\ poll_calls = 0
    /\ extract_calls = 0
    /\ quit_calls = 0
    /\ downloaded_pdf_file = NoFile
    /\ artifact = "none"
    /\ pdf_content = NoText
    /\ new_post_filepath = NoPath
    /\ error_reported = FALSE
    /\ reported = NoPath
    /\ exit_status = NoFile

NextMain ==
    \/ MainAcquire
    \/ MainPoll
    \/ MainExtract
    \/ Generate
    \/ SaveMarkdownPost
    \/ MainRaised
    \/ MainSaved
    \/ MainExcept
    \/ MainQuit
    \/ MainRemove
    \/ MainReport

SpecMain == InitMain /\ [][NextMain]_vars

----------------------------------------------------------------------------
\* Claims about wait_for_download_complete (checked under SpecPoll)

\* while every poll so far saw a marker, the poller is not past the marker
\* check and has returned nothing
MarkerBlocksReturn ==
    marker_always =>
        /\ pc \in {"loop", "crglob", "done"}
        /\ outcome \in {"running", "TimeoutException"}
        /\ downloaded_pdf_path = NoFile
        /\ (pc = "done" => outcome = "TimeoutException")

\* C1: while a *.crdownload marker was present at every poll, the poller
\* never returns a path, whatever *.pdf files exist; if the marker is there
\* at every poll for ever, the call ends by raising TimeoutException.
C1_MarkerBlocksReturn ==
    /\ []MarkerBlocksReturn
    /\ ([]marker_always => <>(pc = "done" /\ outcome = "TimeoutException"))

\* C1 witness: a call that polled, always saw the marker, timed out while a
\* non-empty pdf was lying in the directory
C1_Witness ==
    /\ pc = "done"
    /\ iterations >= 1
    /\ marker_always
    /\ outcome = "TimeoutException"
    /\ \E n \in Names : size[n] > 0

\* C2: a path is returned only if the two size reads of that file in the
\* returning iteration, one sleep apart, were equal and greater than zero; a
\* file whose size was zero all along is never returned.
C2_ReturnOnlyStableNonEmpty ==
    outcome = "returned" =>
        /\ pc = "done"
        /\ downloaded_pdf_path = latest_file
        /\ current_size = final_size
        /\ current_size > 0
        /\ now - t_read1 >= 1
        /\ iter_sleeps = 1
        /\ downloaded_pdf_path \in nonzero_seen

\* C2 witness: a path was returned while another file stayed empty
C2_Witness ==
    /\ outcome = "returned"
    /\ \E n \in Names : size[n] = 0 /\ n \notin nonzero_seen

\* C3 (as claimed): a file vanishing between the listing and the size checks
\* never ends the call with anything but a timeout or a later return, and the
\* iteration that met the missing file consumed exactly one sleep.
C3_VanishIsTransient ==
    /\ outcome # "FileNotFoundError"
    /\ (vanish_seen /\ pc = "loop" => iter_sleeps = 1)

\* the directory holds exactly one pdf, non-empty, and no marker
SingleStable ==
    /\ ~marker
    /\ \E n \in Names : size[n] > 0 /\ \A o \in Names \ {n} : size[o] = Absent

\* C4: with a positive timeout and a directory that holds, unchanged, exactly
\* one non-empty pdf and no marker, the call returns that file in its first
\* iteration after exactly one sleep.
C4_SingleStableReturnsAtOnce ==
    (~dir_changed /\ SingleStable /\ timeout > 0) =>
        /\ iterations <= 1
        /\ (pc = "loop" => iterations = 0)
        /\ (pc = "done" =>
                /\ outcome = "returned"
                /\ downloaded_pdf_path \in Names
                /\ size[downloaded_pdf_path] > 0
                /\ iterations = 1
                /\ iter_sleeps = 1)

\* C4 witness: such a call has returned
C4_Witness ==
    /\ ~dir_changed
    /\ SingleStable
    /\ timeout > 0
    /\ pc = "done"
    /\ outcome = "returned"

\* C5 (as claimed): the call ends only by returning a path or by raising
\* TimeoutException, every completed iteration has advanced the clock by at
\* least one second, and no path is returned for a completion observed after
\* the timeout was exceeded.
C5_TwoOutcomesWithinTimeout ==
    /\ (pc = "done" => outcome \in {"returned", "TimeoutException"})
    /\ (pc = "loop" => now >= iterations)
    /\ (outcome = "returned" => now <= timeout)

----------------------------------------------------------------------------
\* Claims about save_markdown_post and generate_blog_post_with_gemini

\* the first line of the trimmed article body
TitleLine == FirstLine(Strip(markdown_content))

\* t is line without a leading run of '#' and ' ' characters and without
\* surrounding whitespace
IsHeadingStripped(t, line) ==
    \E i \in 1..(Len(line) + 1), j \in 0..Len(line) :
        /\ t = SubSeq(line, i, j)
        /\ \A k \in 1..(i - 1) : line[k] \in {"#", " "}
        /\ \A k \in (j + 1)..Len(line) : line[k] \in Whitespace
        /\ t # <<>> => /\ t[1] \notin ({"#"} \cup Whitespace)
                       /\ t[Len(t)] \notin Whitespace

\* C6 (as claimed): for every non-blank article body the derived title and
\* the derived slug are both non-empty.
C6_NamingNonEmpty ==
    save_pc = "returned" => post_title # <<>> /\ slug # <<>>

\* C7 (as claimed): whenever the first line, stripped of its heading marker
\* and surrounding whitespace, is not empty, the title is that stripped line,
\* whether or not the line starts with a heading marker.
C7_TitleIsStrippedFirstLine ==
    save_pc = "returned" =>
        \A t \in Strs(NormChars, Len(TitleLine)) \ {<<>>} :
            IsHeadingStripped(t, TitleLine) => post_title = t

\* C7 (amended): when the first line starts with '#', the title is that line
\* without its leading '#'/space characters and surrounding whitespace;
\* otherwise the title is the fallback title; the word characters of the slug
\* are the lower-cased word characters of the title, or the slug is the
\* fallback slug when the title has none.
C7_TitleFromHeadingLine ==
    save_pc = "returned" =>
        /\ Head(TitleLine) = "#" => IsHeadingStripped(post_title, TitleLine)
        /\ Head(TitleLine) # "#" => post_title = UntitledReport
        /\ LET words == SelectSeq(Lower(post_title), IsWord)
           IN  IF words = <<>> THEN slug = ReportSlug
               ELSE SelectSeq(slug, IsWord) = words

\* C7 witness: a heading line with extra marker characters gave a real title
C7_Witness ==
    /\ save_pc = "returned"
    /\ Head(TitleLine) = "#"
    /\ post_title # <<>>
    /\ Len(TitleLine) > Len(post_title) + 1
    /\ \E i \in 1..Len(slug) : slug[i] = "a"

\* C8: slug generation applied to its own result changes nothing.
C8_SlugifyIdempotent ==
    save_pc = "slug2" => slug = post_title

\* C8 witness: a second pass over a slug that has a hyphen inside
C8_Witness ==
    /\ save_pc = "slug2"
    /\ Len(slug) >= 3
    /\ slug[2] = "-"

\* the text begins or ends with a code fence, whitespace aside
FenceWrapped(text) ==
    LET t == Strip(text)
    IN  t # <<>> /\ (Head(t) = "F" \/ t[Len(t)] = "F")

\* the text begins or ends with a code fence
FenceAtEdge(text) ==
    text # <<>> /\ (Head(text) = "F" \/ text[Len(text)] = "F")

\* C9 (as claimed): for a response wrapped in a leading and/or trailing code
\* fence, neither the returned text nor the file written from it begins or
\* ends with a fence.
C9_FenceStripped ==
    (gen_pc = "returned" /\ FenceWrapped(response)) =>
        /\ ~FenceAtEdge(markdown_content)
        /\ (save_pc = "returned" => ~FenceAtEdge(written))

\* C10 (as claimed): when the source text is longer than max_input_length,
\* the submitted request holds only its first max_input_length characters.
C10_SubmittedIsPrefixCut ==
    (generate_calls > 0 /\ pdf_text.len > max_input_length) =>
        submitted.source_chars = max_input_length

\* C11: with the credential missing and a non-empty text, the generator
\* raises the missing-credential error and neither genai.configure nor
\* model.generate_content has been invoked.
C11_MissingCredentialBeforeService ==
    (~api_key /\ gen_pc \in {"returned", "raised"}) =>
        /\ gen_pc = "raised"
        /\ gen_error = "MissingCredential"
        /\ configure_calls = 0
        /\ generate_calls = 0
        /\ submitted = NoFile
        /\ response = NoFile

\* C11 witness: the call failed for a missing credential on a non-blank text
C11_Witness ==
    /\ ~api_key
    /\ gen_pc = "raised"
    /\ pdf_text.len > 0
    /\ ~pdf_text.blank

\* the date at UTC+9 of an instant of the day utc_hour belongs to
DateAtPlus9 == IF utc_hour >= 15 THEN 1 ELSE 0

\* C16: for a non-blank body save_markdown_post creates the directory if
\* needed and writes one file, named by the date at UTC+9 and the slug, with
\* extension md, holding exactly the trimmed body; it returns that path; a
\* file of that name is replaced and every other file is left as it was.
C16_WritesDatedSlugFile ==
    save_pc = "returned" =>
        /\ posts_dir
        /\ filepath = [dir |-> POSTS_DIR, date |-> DateAtPlus9, slug |-> slug, ext |-> "md"]
        /\ filepath \in DOMAIN posts
        /\ posts[filepath] = Strip(markdown_content)
        /\ written = posts[filepath]
        /\ posts[filepath] # <<>>
        /\ Cardinality(DOMAIN posts) <= 2
        /\ \A f \in DOMAIN posts \ {filepath} : posts[f] = OldPost
        /\ save_calls = 1

\* C16 witness: '#A a' written after midnight at UTC+9 as 1-a-a.md into a
\* directory that did not exist
C16_Witness ==
    /\ save_pc = "returned"
    /\ markdown_content = <<"#", "A", " ", "a">>
    /\ filepath = PostPath(1, <<"a", "-", "a">>)
    /\ DOMAIN posts = {filepath}

\* C19: the slug holds only lower-case word characters and hyphens, has no
\* two hyphens in a row and neither starts nor ends with a hyphen.
C19_SlugWellFormed ==
    save_pc \in {"slug1", "slug2"} =>
        /\ slug # <<>>
        /\ \A i \in 1..Len(slug) :
              /\ slug[i] = "-" \/ (IsWord(slug[i]) /\ LowerChar(slug[i]) = slug[i])
              /\ slug[i] \notin Whitespace \cup {"/", "!", "#"}
        /\ \A i \in 1..(Len(slug) - 1) : ~(slug[i] = "-" /\ slug[i + 1] = "-")
        /\ slug[1] # "-"
        /\ slug[Len(slug)] # "-"

\* C19 witness: a title with a path separator, upper case and a hyphen run
C19_Witness ==
    /\ save_pc = "slug1"
    /\ post_title = <<"/", "A", "-", "-">>
    /\ slug = <<"a">>

----------------------------------------------------------------------------
\* Claims about the main block (checked under SpecMain)

\* C12: when the script has ended and the browser session had been created,
\* driver.quit was called, whatever stage failed or succeeded
C12_SessionClosedOnEveryPath ==
    main_pc \in {"remove", "report", "exit"} /\ driver => quit_calls = 1

C12_Witness ==
    /\ main_pc = "exit"
    /\ driver
    /\ error_reported
    /\ gen_error = "ContentBlocked"
    /\ quit_calls = 1

\* C13: when the script has ended and the poller had returned a path, the
\* downloaded file is no longer in the download directory
C13_ArtifactRemovedAtEnd ==
    main_pc = "exit" /\ downloaded_pdf_file # NoFile => artifact = "absent"

\* the run met an error: a stage raised into the handler of line 303
StageFailed == error_reported

\* C14: when a stage has failed, the script ends with a non-zero exit status
C14_FailureExitsNonZero ==
    main_pc = "exit" /\ StageFailed => exit_status # 0

\* C15: save_markdown_post is invoked only after the generator returned, and
\* no step that ends with the generator not having returned changes the
\* content directory or a file in it
C15_NoPostUnlessGenerated ==
    /\ [](save_calls > 0 => gen_pc = "returned")
    /\ [][gen_pc' # "returned" => UNCHANGED <<posts_dir, posts>>]_vars

C15_Witness ==
    /\ main_pc = "exit"
    /\ gen_pc = "raised"
    /\ gen_error = "MalformedResponse"
    /\ generate_calls = 1
    /\ save_calls = 0
    /\ posts_dir

\* the extracted text is empty or whitespace only
BlankText == pdf_content # NoText /\ (pdf_content.len = 0 \/ pdf_content.blank)

\* C17: after a blank extracted text the service is never invoked and the
\* run ends as a failure; a blank body makes save_markdown_post raise and
\* leave the content directory as it was
C17_BlankIsFatal ==
    /\ BlankText => configure_calls = 0 /\ generate_calls = 0
    /\ main_pc = "exit" /\ BlankText => exit_status # 0
    /\ save_pc = "raised" => Strip(markdown_content) = <<>> /\ written = NoFile

\* C18: no stage runs more than once, and a stage has run only if the stage
\* before it has run and succeeded
C18_StagesInOrderOnce ==
    /\ click_calls <= 1 /\ poll_calls <= 1 /\ extract_calls <= 1
    /\ configure_calls <= 1 /\ generate_calls <= 1 /\ save_calls <= 1
    /\ poll_calls > 0 => click_calls = 1
    /\ extract_calls > 0 => poll_calls = 1 /\ downloaded_pdf_file # NoFile
    /\ gen_pc # "idle" => extract_calls = 1 /\ pdf_content # NoText
    /\ save_calls > 0 => gen_pc = "returned"

C18_Witness ==
    /\ main_pc = "exit"
    /\ save_pc = "returned"
    /\ click_calls = 1 /\ poll_calls = 1 /\ extract_calls = 1
    /\ generate_calls = 1 /\ save_calls = 1

\* C20: at the end of the script a path has been reported exactly when
\* save_markdown_post returned, and it is the path of the written file
C20_ReportedIffSaved ==
    main_pc = "exit" =>
        /\ reported # NoPath <=> save_pc = "returned"
        /\ reported # NoPath => reported = filepath /\ filepath \in DOMAIN posts

====
